---- MODULE Spec2Model ----
(***************************************************************************)
(* Depth-aware arbitrage validation (src/src/arbitrage.rs) as a state      *)
(* machine.  Four sub-systems share the module, each with a specification  *)
(* of its own:                                                             *)
(*   SpecSim    calculate_weighted_average_price (the trade simulator)     *)
(*   SpecCycle  validate_arbitrage_cycle + calculate_arbitrage             *)
(*   SpecStore  store_arb_cycle (the opportunity recorder)                 *)
(*   Spec       best_symbols_thread and the readers of the watch-list      *)
(*                                                                         *)
(* f64 values are modelled as exact rationals [n, d] in lowest terms:      *)
(* rounding of the binary floating-point format is not modelled, so        *)
(* equalities below are equalities of real numbers.                        *)
(***************************************************************************)
EXTENDS Integers, Sequences, FiniteSets, TLC

VARIABLES
    \* ---- calculate_weighted_average_price, called on its own
    sim_pc, sim_book, sim_budget, sim_dir, sim_out,
    \* ---- store_arb_cycle
    store_pc,       \* "call", "returned" ("idle" outside SpecStore)
    store_cycle,    \* the cycle argument: a sequence of edges [from, to]
    store_data,     \* the ArbData record built (None before it is built)
    store_result,   \* "Ok" or "Err": the Result<(), SmartError> returned
    store_csv,      \* the rows appended to arbitrage_data.csv
    \* ---- validate_arbitrage_cycle and calculate_arbitrage
    vc_cycle,          \* the cycle argument
    exchange,       \* the exchange state: [symbols, prices]
    depth,          \* per leg, what get_orderbook_depth returns for it
    vpc,            \* "start", "extract", "fetch", "join", "propagate",
                    \* "returned", "panicked" ("idle" outside SpecCycle)
    vc_budget, symbols, directions, book_types, orderbooks,
    in_flight,      \* the legs whose fetch has been issued and not completed
    results,        \* join_all's output, None where nothing has arrived yet
    ca_i,            \* calculate_arbitrage's loop index (from 1)
    ca_real_rate, quantities_input, ca_amount_in,
    ret,            \* the value returned
    leg_log,        \* per iteration of calculate_arbitrage, what it did
    run,            \* which evaluation of the cycle this is
    first_ret,      \* what the first evaluation returned
    completion,     \* the legs in the order their fetches completed
    first_completion,   \* that order in the first evaluation
    \* ---- best_symbols_thread and the readers of the watch-list
    best_symbols,   \* the shared watch-list, Arc<Mutex<Vec<String>>>
    lock,           \* who holds its mutex: "free", "selector" or a reader's name
    pc,             \* "sleep", "snapshot", "search", "cycles", "accumulate",
                    \* "lock", "clear", "extend", "panicked"
    symbols_hs, timestamp, save_timestamp,
    exch_binance,   \* the prices of the tick's exchange snapshot
    cycles,         \* the candidate cycles the for loop has yet to take
    cur_cycle,      \* the cycle of the current iteration
    arb_opt,        \* the rate validate_arbitrage_cycle returned for it
    new_best_symbols,
    rpc,            \* per reader: "idle", "locked", "copied"
    observed,       \* per reader: the copy of the list it took
    committed,      \* the last list that was written completely
    last_swap,      \* the sampled timestamp of the last swap (of the start
                    \* of the thread before the first swap)
    overdue         \* a slow-tick check since the last swap found the
                    \* deadline passed and the set short of capacity

sim_vars == <<sim_pc, sim_book, sim_budget, sim_dir, sim_out>>
store_vars == <<store_pc, store_cycle, store_data, store_result, store_csv>>
cycle_env == <<vc_cycle, exchange, depth>>
cycle_locals ==
    <<vc_budget, symbols, directions, book_types, in_flight, results, orderbooks,
      ca_i, ca_real_rate, quantities_input, ca_amount_in>>
cycle_vars ==
    <<cycle_env, vpc, cycle_locals, ret, leg_log, run, first_ret, completion,
      first_completion>>
reader_vars == <<rpc, observed>>
swap_history == <<last_swap, overdue>>
thread_vars ==
    <<best_symbols, lock, pc, symbols_hs, timestamp, save_timestamp, exch_binance,
      cycles, cur_cycle, arb_opt, new_best_symbols, reader_vars, committed,
      swap_history>>
vars == <<sim_vars, store_vars, cycle_vars, thread_vars>>

(***************************************************************************)
(* Rationals                                                               *)
(***************************************************************************)
Abs(x) == IF x < 0 THEN -x ELSE x

RECURSIVE GCD(_, _)
GCD(a, b) == IF b = 0 THEN a ELSE GCD(b, a % b)

\* The rational n/d (d # 0) in lowest terms with a positive denominator.
Rat(n, d) ==
    LET g == GCD(Abs(n), Abs(d))
        s == IF d < 0 THEN -1 ELSE 1
    IN  [n |-> (s * n) \div g, d |-> (s * d) \div g]

Num(k) == [n |-> k, d |-> 1]
RAdd(a, b) == Rat(a.n * b.d + b.n * a.d, a.d * b.d)
RSub(a, b) == Rat(a.n * b.d - b.n * a.d, a.d * b.d)
RMul(a, b) == Rat(a.n * b.n, a.d * b.d)
RDiv(a, b) == Rat(a.n * b.d, a.d * b.n)
RLt(a, b) == a.n * b.d < b.n * a.d
RLe(a, b) == a.n * b.d <= b.n * a.d
RGt(a, b) == RLt(b, a)
RGe(a, b) == RLe(b, a)
Zero == Num(0)
One == Num(1)

\* Option<T>
None == [some |-> FALSE]
Some(v) == [some |-> TRUE, val |-> v]

(***************************************************************************)
(* calculate_weighted_average_price                                        *)
(***************************************************************************)
Directions == {"Forward", "Reverse"}

\* A level is <<price, quantity>>, both rationals.
EffectiveQuantity(direction, price, quantity) ==
    IF direction = "Reverse" THEN quantity ELSE RMul(quantity, price)

Cost(direction, price, quantity) ==
    IF direction = "Reverse" THEN RMul(quantity, price) ELSE quantity

RemainingQuantity(direction, remaining_budget, price) ==
    IF direction = "Reverse" THEN RDiv(remaining_budget, price)
                             ELSE RMul(remaining_budget, price)

\* if total_cost + cost > budget
ExceedsBudget(total_cost, cost, budget) == RGt(RAdd(total_cost, cost), budget)

PartialFill_NoCost(acc, budget, direction, price) ==
    LET remaining_budget == RSub(budget, acc.total_cost)
    IN  [total_cost |-> acc.total_cost,
         total_quantity |->
             RAdd(acc.total_quantity,
                  RemainingQuantity(direction, remaining_budget, price))]

\* The branch that exhausts the budget on this level (then break).
PartialFill(acc, budget, direction, price) ==
    LET remaining_budget == RSub(budget, acc.total_cost)
        remaining_quantity == RemainingQuantity(direction, remaining_budget, price)
    IN  [total_cost |-> RAdd(acc.total_cost, remaining_budget),
         total_quantity |-> RAdd(acc.total_quantity, remaining_quantity)]

FullFill_AddsCost(acc, cost, effective_quantity) ==
    [total_cost |-> RAdd(acc.total_cost, cost),
     total_quantity |-> RAdd(acc.total_quantity, cost)]

\* The branch that consumes the whole level.
FullFill(acc, cost, effective_quantity) ==
    [total_cost |-> RAdd(acc.total_cost, cost),
     total_quantity |-> RAdd(acc.total_quantity, effective_quantity)]

\* The for loop over the levels from level i on; acc holds total_cost and
\* total_quantity.  Both breaks end the recursion.
RECURSIVE WalkBook(_, _, _, _, _)
WalkBook(orderbook, budget, direction, i, acc) ==
    IF i > Len(orderbook) THEN acc
    ELSE
        LET price == orderbook[i][1]
            quantity == orderbook[i][2]
            effective_quantity == EffectiveQuantity(direction, price, quantity)
            cost == Cost(direction, price, quantity)
        IN  IF ExceedsBudget(acc.total_cost, cost, budget)
            THEN PartialFill(acc, budget, direction, price)
            ELSE
                LET nxt == FullFill(acc, cost, effective_quantity)
                IN  IF RGe(nxt.total_cost, budget) THEN nxt
                    ELSE WalkBook(orderbook, budget, direction, i + 1, nxt)

WeightedAveragePrice_Swapped(direction, total_cost, total_quantity) ==
    IF direction = "Reverse" THEN RDiv(total_quantity, total_cost)
                             ELSE RDiv(total_cost, total_quantity)

WeightedAveragePrice(direction, total_cost, total_quantity) ==
    IF direction = "Reverse" THEN RDiv(total_cost, total_quantity)
                             ELSE RDiv(total_quantity, total_cost)

\* Option<(weighted_average_price, total_cost, total_quantity)>
CalculateWeightedAveragePrice(orderbook, budget, direction) ==
    LET w == WalkBook(orderbook, budget, direction, 1,
                      [total_cost |-> Zero, total_quantity |-> Zero])
    IN  IF w.total_quantity = Zero THEN None
        ELSE Some([weighted_average_price |->
                       WeightedAveragePrice(direction, w.total_cost, w.total_quantity),
                   total_cost |-> w.total_cost,
                   total_quantity |-> w.total_quantity])

(***************************************************************************)
(* Inputs of the simulator on its own.  Books are best price first: asks   *)
(* (read in direction Forward) ascend, bids (Reverse) descend; an exchange *)
(* reports every level with a positive price and a positive quantity.      *)
(* Budgets are positive, as every budget validate_arbitrage_cycle and      *)
(* calculate_arbitrage pass on is.                                         *)
(***************************************************************************)
MaxLevels == 2
SimPrices == {1, 2, 100}
SimQuantities == {1, 10}
SimBudgets == {1, 3, 11, 500}

Level(p, q) == <<Num(p), Num(q)>>

BestFirst(orderbook, direction) ==
    \A i \in 1..(Len(orderbook) - 1) :
        IF direction = "Forward"
        THEN RLt(orderbook[i][1], orderbook[i + 1][1])
        ELSE RGt(orderbook[i][1], orderbook[i + 1][1])

SimLevels == {Level(p, q) : p \in SimPrices, q \in SimQuantities}

SimBooks(direction) ==
    {b \in UNION {[1..k -> SimLevels] : k \in 0..MaxLevels} : BestFirst(b, direction)}

SimInit ==
    /\ sim_pc = "call"
    /\ sim_dir \in Directions
    /\ sim_book \in SimBooks(sim_dir)
    /\ sim_budget \in {Num(b) : b \in SimBudgets}
    /\ sim_out = None

SimIdle ==
    /\ sim_pc = "idle"
    /\ sim_dir = "Forward"
    /\ sim_book = <<>>
    /\ sim_budget = One
    /\ sim_out = None

SimCall ==
    /\ sim_pc = "call"
    /\ sim_out' = CalculateWeightedAveragePrice(sim_book, sim_budget, sim_dir)
    /\ sim_pc' = "returned"
    /\ UNCHANGED <<sim_book, sim_budget, sim_dir>>
    /\ UNCHANGED <<store_vars, cycle_vars, thread_vars>>

(***************************************************************************)
(* Assets, edges and HashSet<String>                                       *)
(***************************************************************************)
\* The asset names the model draws from: the distinct entries of
\* ASSET_HOLDINGS, then assets outside it.
AssetUniverse ==
    <<"USDT", "BTC", "FUSD", "BUSD", "BNB", "AVAX", "LTC", "XRP", "DOT", "DOGE",
      "FET", "ETH", "BTCST">>

AssetIndex(a) == CHOOSE i \in 1..Len(AssetUniverse) : AssetUniverse[i] = a

Edge(f, t) == [from |-> f, to |-> t]

\* std::collections::HashSet iterates in the order of its hash table, which
\* depends on the keys RandomState draws when the set is created.  The model
\* draws a seed and orders the elements by a keyed hash of the element.
MaxSeed == 5
HashSeeds == 1..(IF MaxSeed < 16 THEN MaxSeed ELSE 16)
HashKey(a, seed) == (AssetIndex(a) * seed) % 17

RECURSIVE HashSetIter(_, _)
HashSetIter(hs, seed) ==
    IF hs = {} THEN <<>>
    ELSE LET first == CHOOSE x \in hs :
                          \A y \in hs : HashKey(x, seed) <= HashKey(y, seed)
         IN  <<first>> \o HashSetIter(hs \ {first}, seed)

(***************************************************************************)
(* store_arb_cycle                                                         *)
(***************************************************************************)
\* for leg in cycle { insert(leg.from); insert(leg.to) }
RECURSIVE CycleAssets(_)
CycleAssets(cycle) ==
    IF cycle = <<>> THEN {}
    ELSE {cycle[1].from, cycle[1].to} \cup CycleAssets(Tail(cycle))

AssetSlot_DropsLast(arb_assets, i) ==
    IF Len(arb_assets) > i + 1 THEN Some(arb_assets[i + 1]) ELSE None

\* let asset_i = if arb_assets.len() > i { Some(arb_assets[i]) } else { None }
\* (arb_assets is indexed from 0 in the source, from 1 here)
AssetSlot(arb_assets, i) ==
    IF Len(arb_assets) > i THEN Some(arb_assets[i + 1]) ELSE None

\* The ArbData instance; timestamp, arb_rate and arb_surface are copied from
\* the clock and the arguments and are left out.
BuildArbData(cycle, arb_assets) ==
    [arb_length |-> Len(cycle),
     asset_0 |-> AssetSlot(arb_assets, 0),
     asset_1 |-> AssetSlot(arb_assets, 1),
     asset_2 |-> AssetSlot(arb_assets, 2),
     asset_3 |-> AssetSlot(arb_assets, 3),
     asset_4 |-> AssetSlot(arb_assets, 4),
     asset_5 |-> AssetSlot(arb_assets, 5),
     asset_6 |-> AssetSlot(arb_assets, 6),
     asset_7 |-> AssetSlot(arb_assets, 7)]

\* Cycles handed to the recorder: closed rings over k consecutive assets of
\* the universe starting after position off, and back-and-forth walks over
\* two assets (fewer assets than edges).
MaxRing == 9
MaxOffset == 2

Ring(k, off) ==
    [i \in 1..k |-> Edge(AssetUniverse[off + i],
                         AssetUniverse[off + (IF i = k THEN 1 ELSE i + 1)])]

BackAndForth(n) ==
    [i \in 1..n |-> IF i % 2 = 1 THEN Edge("USDT", "BNB") ELSE Edge("BNB", "USDT")]

StoreCycles ==
    {Ring(k, off) : k \in 0..MaxRing,
                    off \in 0..(IF MaxOffset < 3 THEN MaxOffset ELSE 3)}
    \cup {BackAndForth(n) : n \in 2..4}

StoreInit ==
    /\ store_pc = "call"
    /\ store_cycle \in StoreCycles
    /\ store_data = None
    /\ store_result = "none"
    /\ store_csv = <<>>

StoreIdle ==
    /\ store_pc = "idle"
    /\ store_cycle = <<>>
    /\ store_data = None
    /\ store_result = "none"
    /\ store_csv = <<>>

\* store_arb_cycle: the set is filled and iterated, the record is built, and
\* the row is appended unless opening, writing or flushing the file fails
\* (the ? operators).
StoreArbCycle ==
    /\ store_pc = "call"
    /\ \E seed \in HashSeeds, io_ok \in BOOLEAN :
          LET assets_hs == CycleAssets(store_cycle)
              arb_assets == HashSetIter(assets_hs, seed)
              data == BuildArbData(store_cycle, arb_assets)
          IN  /\ store_data' = Some(data)
              /\ store_csv' = IF io_ok THEN Append(store_csv, data) ELSE store_csv
              /\ store_result' = IF io_ok THEN "Ok" ELSE "Err"
    /\ store_pc' = "returned"
    /\ UNCHANGED store_cycle
    /\ UNCHANGED <<sim_vars, cycle_vars, thread_vars>>

(***************************************************************************)
(* Exchange state: symbols() and prices(), and helpers::validate_quantity  *)
(***************************************************************************)
\* HashMap::get
Lookup(map, key) == IF key \in DOMAIN map THEN Some(map[key]) ELSE None

\* The trading rules of a symbol the quantity check reads: the smallest
\* quantity accepted and the lot step (0: any quantity).
SymbolInfo(min_qty, step) == [min_qty |-> min_qty, step |-> step]

\* The largest multiple of step that is <= amount (amount >= 0, step > 0).
FloorToStep(amount, step) == Num((amount.n \div (amount.d * step)) * step)

\* helpers::validate_quantity(symbol_info, amount_in, price): the trading-rule
\* check, a black box that rejects the proposed quantity or accepts it and
\* returns the quantity to trade.
ValidateQuantity(symbol_info, amount_in, price) ==
    IF RLt(amount_in, symbol_info.min_qty) THEN [ok |-> FALSE]
    ELSE [ok |-> TRUE,
          quantity |-> IF symbol_info.step = 0 THEN amount_in
                       ELSE FloorToStep(amount_in, symbol_info.step)]

(***************************************************************************)
(* validate_arbitrage_cycle: guards and starting budget                    *)
(***************************************************************************)
ASSET_HOLDINGS ==
    {"USDT", "BTC", "FUSD", "BUSD", "FUSD", "BNB", "AVAX", "LTC", "XRP", "DOT",
     "DOGE", "FET"}

USD_BUDGET == 1000

\* prices().get(symbol).expect(..): the price, or a panic when it is missing.
BudgetVia(prices, symbol) ==
    IF symbol \in DOMAIN prices
    THEN [kind |-> "budget", val |-> RDiv(Num(USD_BUDGET), prices[symbol])]
    ELSE [kind |-> "panic"]

\* let budget = match from { ... }
StartingBudget(from, prices) ==
    CASE from = "BTC" -> BudgetVia(prices, "BTCUSDT")
      [] from = "ETH" -> BudgetVia(prices, "ETHUSDT")
      [] from = "BNB" -> BudgetVia(prices, "BNBUSDT")
      [] from = "LINK" -> BudgetVia(prices, "LINKUSDT")
      [] from = "USDT" -> [kind |-> "budget", val |-> Num(USD_BUDGET)]
      [] from = "BUSD" -> [kind |-> "budget", val |-> Num(USD_BUDGET)]
      [] from = "USDC" -> [kind |-> "budget", val |-> Num(USD_BUDGET)]
      [] OTHER -> [kind |-> "none"]

\* Lines 142-165 as a whole: "none" (return None), "panic", or the budget.
AnchorGate(c, prices) ==
    IF Len(c) = 0 THEN [kind |-> "none"]
    ELSE IF c[1].from \notin ASSET_HOLDINGS THEN [kind |-> "none"]
    ELSE StartingBudget(c[1].from, prices)

(***************************************************************************)
(* validate_arbitrage_cycle: symbol, book type and direction of a leg      *)
(***************************************************************************)
\* str::starts_with
StartsWith(s, prefix) ==
    /\ Len(prefix) <= Len(s)
    /\ SubSeq(s, 1, Len(prefix)) = prefix

LegSymbol(leg, listed) ==
    LET symbol_1 == leg.to \o leg.from
        symbol_2 == leg.from \o leg.to
    IN  IF symbol_1 \in listed THEN symbol_1 ELSE symbol_2

LegBookType(leg, symbol) ==
    IF StartsWith(symbol, leg.from) THEN "Asks" ELSE "Bids"

LegDirection(leg, symbol) ==
    IF StartsWith(symbol, leg.from) THEN "Forward" ELSE "Reverse"

(***************************************************************************)
(* calculate_arbitrage: one iteration of the loop                          *)
(***************************************************************************)
QuantityGuard_OrInput(vq, amount_in) ==
    IF vq.ok THEN Some(vq.quantity) ELSE Some(amount_in)

\* match validate_quantity(..) { Ok(quantity) => quantity, Err(_) => return None }
QuantityGuard(vq, amount_in) ==
    IF vq.ok THEN Some(vq.quantity) ELSE None

NextAmountIn_Cost(trade) == trade.total_cost

\* amount_in = total_qty
NextAmountIn(trade) == trade.total_quantity

\* match direction { Forward => real_rate *= wp, Reverse => real_rate *= 1.0 / wp }
NextRealRate(real_rate_, direction, weighted_price) ==
    IF direction = "Forward" THEN RMul(real_rate_, weighted_price)
    ELSE RMul(real_rate_, RDiv(One, weighted_price))

(***************************************************************************)
(* The evaluation of one cycle as a process                                *)
(***************************************************************************)
NoLocals ==
    /\ vc_budget = None
    /\ symbols = <<>>
    /\ directions = <<>>
    /\ book_types = <<>>
    /\ in_flight = {}
    /\ results = <<>>
    /\ orderbooks = <<>>
    /\ ca_i = 0
    /\ ca_real_rate = One
    /\ quantities_input = <<>>
    /\ ca_amount_in = Zero

\* A fresh call: the locals as they are before the first statement.
ResetLocals ==
    /\ vc_budget' = None
    /\ symbols' = <<>>
    /\ directions' = <<>>
    /\ book_types' = <<>>
    /\ in_flight' = {}
    /\ results' = <<>>
    /\ orderbooks' = <<>>
    /\ ca_i' = 0
    /\ ca_real_rate' = One
    /\ quantities_input' = <<>>
    /\ ca_amount_in' = Zero

\* return None / return Some(..): the locals stay as they were at the return.
Return(value) ==
    /\ vpc' = "returned"
    /\ ret' = value

\* Lines 142-165: the two guards and the starting budget.
Begin ==
    /\ vpc = "start"
    /\ LET gate == AnchorGate(vc_cycle, exchange.prices)
       IN  IF gate.kind = "none"
           THEN /\ Return(None)
                /\ UNCHANGED vc_budget
           ELSE IF gate.kind = "panic"
           THEN /\ vpc' = "panicked"
                /\ UNCHANGED <<ret, vc_budget>>
           ELSE /\ vpc' = "extract"
                /\ vc_budget' = Some(gate.val)
                /\ UNCHANGED ret
    /\ UNCHANGED <<cycle_env, symbols, directions, book_types, in_flight, results,
                   orderbooks, ca_i, ca_real_rate, quantities_input, ca_amount_in,
                   leg_log, run, first_ret, completion, first_completion>>
    /\ UNCHANGED <<sim_vars, store_vars, thread_vars>>

\* Lines 167-184: the symbol, direction and book type of every leg.
ExtractLegs ==
    /\ vpc = "extract"
    /\ LET listed == DOMAIN exchange.symbols
           syms == [k \in 1..Len(vc_cycle) |-> LegSymbol(vc_cycle[k], listed)]
       IN  /\ symbols' = syms
           /\ directions' =
                  [k \in 1..Len(vc_cycle) |-> LegDirection(vc_cycle[k], syms[k])]
           /\ book_types' =
                  [k \in 1..Len(vc_cycle) |-> LegBookType(vc_cycle[k], syms[k])]
    /\ vpc' = "fetch"
    /\ UNCHANGED <<cycle_env, vc_budget, in_flight, results, orderbooks, ca_i,
                   ca_real_rate, quantities_input, ca_amount_in, ret, leg_log, run,
                   first_ret, completion, first_completion>>
    /\ UNCHANGED <<sim_vars, store_vars, thread_vars>>

\* Lines 187-192: one get_orderbook_depth future per leg, all polled by
\* join_all before any of them has completed.
IssueFetches ==
    /\ vpc = "fetch"
    /\ in_flight' = 1..Len(symbols)
    /\ results' = [k \in 1..Len(symbols) |-> None]
    /\ vpc' = "join"
    /\ UNCHANGED <<cycle_env, vc_budget, symbols, directions, book_types, orderbooks,
                   ca_i, ca_real_rate, quantities_input, ca_amount_in, ret, leg_log, run,
                   first_ret, completion, first_completion>>
    /\ UNCHANGED <<sim_vars, store_vars, thread_vars>>

ResultSlot_CompletionOrder(k, res) ==
    1 + Cardinality({j \in DOMAIN res : res[j].some})

\* join_all keeps the output of future k at position k of its result.
ResultSlot(k, res) == k

\* The fetch of leg k completes, with the outcome the exchange has for it.
FetchComplete(k) ==
    /\ vpc = "join"
    /\ k \in in_flight
    /\ in_flight' = in_flight \ {k}
    /\ results' = [results EXCEPT ![ResultSlot(k, results)] = Some(depth[k])]
    /\ completion' = Append(completion, k)
    /\ UNCHANGED <<cycle_env, vpc, vc_budget, symbols, directions, book_types,
                   orderbooks, ca_i, ca_real_rate, quantities_input, ca_amount_in,
                   ret, leg_log, run, first_ret, first_completion>>
    /\ UNCHANGED <<sim_vars, store_vars, thread_vars>>

FirstErr_Ignored(res) == 0

\* The first position of results that holds an Err, or 0.
FirstErr(res) ==
    IF \E k \in DOMAIN res : ~res[k].val.ok
    THEN CHOOSE k \in DOMAIN res :
             /\ ~res[k].val.ok
             /\ \A j \in 1..(k - 1) : res[j].val.ok
    ELSE 0

\* Lines 192-206: join_all has returned; the results are scanned in order
\* and calculate_arbitrage is entered (lines 88-90) unless one is an Err.
ScanResults ==
    /\ vpc = "join"
    /\ in_flight = {}
    /\ IF FirstErr(results) # 0
       THEN /\ Return(None)
            /\ orderbooks' =
                   [k \in 1..(FirstErr(results) - 1) |-> results[k].val.book]
            /\ UNCHANGED <<ca_i, ca_real_rate, quantities_input, ca_amount_in>>
       ELSE /\ orderbooks' = [k \in DOMAIN results |-> results[k].val.book]
            /\ vpc' = "propagate"
            /\ ca_i' = 1
            /\ ca_real_rate' = One
            /\ quantities_input' = <<>>
            /\ ca_amount_in' = vc_budget.val
            /\ UNCHANGED ret
    /\ UNCHANGED <<cycle_env, vc_budget, symbols, directions, book_types, in_flight,
                   results, leg_log, run, first_ret, completion, first_completion>>
    /\ UNCHANGED <<sim_vars, store_vars, thread_vars>>

\* Lines 93-130: the loop body for leg number `leg`.  leg_log records what the
\* iteration looked up, passed to the simulator and got back.
PropagateLeg ==
    /\ vpc = "propagate"
    /\ ca_i <= Len(symbols)
    /\ LET symbol == symbols[ca_i]
           direction == directions[ca_i]
           orderbook == orderbooks[ca_i]
           symbol_info == Lookup(exchange.symbols, symbol)
           price == Lookup(exchange.prices, symbol)
       IN  IF ~symbol_info.some \/ ~price.some
           THEN /\ Return(None)
                /\ leg_log' = Append(leg_log,
                       [leg |-> ca_i, found |-> FALSE, accepted |-> FALSE,
                        simulated |-> FALSE, book |-> orderbook,
                        sim_budget |-> ca_amount_in, sim_out |-> None])
                /\ UNCHANGED <<ca_i, ca_real_rate, quantities_input, ca_amount_in>>
           ELSE
               LET vq == ValidateQuantity(symbol_info.val, ca_amount_in, price.val)
                   quantity == QuantityGuard(vq, ca_amount_in)
               IN  IF ~quantity.some
                   THEN /\ Return(None)
                        /\ leg_log' = Append(leg_log,
                               [leg |-> ca_i, found |-> TRUE, accepted |-> FALSE,
                                simulated |-> FALSE, book |-> orderbook,
                                sim_budget |-> ca_amount_in, sim_out |-> None])
                        /\ UNCHANGED <<ca_i, ca_real_rate, quantities_input, ca_amount_in>>
                   ELSE
                       LET trade_res == CalculateWeightedAveragePrice(
                                            orderbook, ca_amount_in, direction)
                           entry == [leg |-> ca_i, found |-> TRUE,
                                     accepted |-> vq.ok, simulated |-> TRUE,
                                     book |-> orderbook, sim_budget |-> ca_amount_in,
                                     sim_out |-> trade_res]
                       IN  /\ leg_log' = Append(leg_log, entry)
                           /\ quantities_input' =
                                  Append(quantities_input, quantity.val)
                           /\ IF ~trade_res.some
                              THEN /\ Return(None)
                                   /\ UNCHANGED <<ca_i, ca_real_rate, ca_amount_in>>
                              ELSE /\ ca_amount_in' = NextAmountIn(trade_res.val)
                                   /\ ca_real_rate' = NextRealRate(ca_real_rate, direction,
                                          trade_res.val.weighted_average_price)
                                   /\ ca_i' = ca_i + 1
                                   /\ UNCHANGED <<vpc, ret>>
    /\ UNCHANGED <<cycle_env, vc_budget, symbols, directions, book_types, in_flight,
                   results, orderbooks, run, first_ret, completion, first_completion>>
    /\ UNCHANGED <<sim_vars, store_vars, thread_vars>>

\* Lines 133 and 206-209: Some((real_rate, quantities, symbols)).
ReturnSome ==
    /\ vpc = "propagate"
    /\ ca_i > Len(symbols)
    /\ Return(Some([real_rate |-> ca_real_rate, quantities |-> quantities_input,
                    symbols |-> symbols]))
    /\ UNCHANGED <<cycle_env, cycle_locals, leg_log, run, first_ret, completion,
                   first_completion>>
    /\ UNCHANGED <<sim_vars, store_vars, thread_vars>>

\* The same cycle is evaluated a second time against the same exchange state
\* and the same order-book snapshots.
MaxRuns == 2

Reevaluate ==
    /\ vpc = "returned"
    /\ run < MaxRuns
    /\ run' = run + 1
    /\ first_ret' = IF run = 1 THEN ret ELSE first_ret
    /\ first_completion' = IF run = 1 THEN completion ELSE first_completion
    /\ completion' = <<>>
    /\ vpc' = "start"
    /\ ret' = None
    /\ leg_log' = <<>>
    /\ ResetLocals
    /\ UNCHANGED cycle_env
    /\ UNCHANGED <<sim_vars, store_vars, thread_vars>>

\* ---- the inputs of an evaluation
\* Candidate cycles: the empty cycle, a start outside ASSET_HOLDINGS, a start
\* in ASSET_HOLDINGS without a budget rule, and closed cycles of two and
\* three legs anchored in USDT, BTC and BNB, one of them through BTCST, an
\* asset whose name begins with the name of another.
CycleChoices ==
    {<<>>,
     <<Edge("ETH", "USDT"), Edge("USDT", "ETH")>>,
     <<Edge("AVAX", "USDT"), Edge("USDT", "AVAX")>>,
     <<Edge("USDT", "BNB"), Edge("BNB", "USDT")>>,
     <<Edge("USDT", "BNB"), Edge("BNB", "BTC"), Edge("BTC", "USDT")>>,
     <<Edge("BTC", "BNB"), Edge("BNB", "BTC")>>,
     <<Edge("BNB", "USDT"), Edge("USDT", "BNB")>>,
     <<Edge("BTC", "BTCST"), Edge("BTCST", "BTC")>>}

BaseListing == {"BNBUSDT", "BNBBTC", "BTCUSDT", "AVAXUSDT", "ETHUSDT"}
FaultySymbols == {"BNBUSDT", "BNBBTC", "BTCUSDT"}

BasePrice(s) ==
    CASE s = "BNBUSDT" -> Num(4)
      [] s = "USDTBNB" -> Rat(1, 4)
      [] s = "BNBBTC" -> Rat(1, 25)
      [] s = "BTCUSDT" -> Num(100)
      [] s = "AVAXUSDT" -> Num(2)
      [] s = "ETHUSDT" -> Num(10)
      [] OTHER -> One

\* An exchange snapshot: the listed symbols with their rules (strict: a
\* minimum quantity no budget reaches; stepped: a lot step of 3) and the
\* symbols that have a last price.
ExchangeState(listing, priced, strict, stepped) ==
    [symbols |-> [s \in listing |->
                     SymbolInfo(IF s \in strict THEN Num(100000) ELSE Zero,
                                IF s \in stepped THEN 3 ELSE 0)],
     prices |-> [s \in priced |-> BasePrice(s)]]

Exchanges ==
    {ExchangeState(BaseListing, BaseListing, {}, {}),
     ExchangeState(BaseListing \cup {"USDTBNB"}, BaseListing \cup {"USDTBNB"}, {}, {}),
     ExchangeState(BaseListing \cup {"BTCSTBTC"}, BaseListing \cup {"BTCSTBTC"}, {}, {})}
    \cup {ExchangeState(BaseListing \ {s}, BaseListing, {}, {}) : s \in FaultySymbols}
    \cup {ExchangeState(BaseListing, BaseListing \ {s}, {}, {}) : s \in FaultySymbols}
    \cup {ExchangeState(BaseListing, BaseListing, {s}, {}) : s \in FaultySymbols}
    \cup {ExchangeState(BaseListing, BaseListing, {}, {s}) : s \in FaultySymbols}

\* What get_orderbook_depth returns for a symbol and a side: an error, or a
\* best-first book (asks ascend, bids descend) of no, one or two levels
\* around the symbol's price.
DepthKinds == {"err", "empty", "shallow", "deep"}

BookOf(kind, p, book_type) ==
    CASE kind = "empty" -> <<>>
      [] kind = "shallow" -> << <<p, Num(100)>> >>
      [] kind = "deep" ->
            << <<p, Num(100)>>,
               <<IF book_type = "Asks" THEN RMul(p, Num(2)) ELSE RDiv(p, Num(2)),
                 Num(1000)>> >>

DepthOutcome(kind, symbol, book_type) ==
    IF kind = "err" THEN [ok |-> FALSE, book |-> <<>>]
    ELSE [ok |-> TRUE, book |-> BookOf(kind, BasePrice(symbol), book_type)]

DepthFor(c, exch, kinds) ==
    [k \in 1..Len(c) |->
        LET symbol == LegSymbol(c[k], DOMAIN exch.symbols)
        IN  DepthOutcome(kinds[k], symbol, LegBookType(c[k], symbol))]

CycleInit ==
    /\ vc_cycle \in CycleChoices
    /\ exchange \in Exchanges
    /\ depth \in {DepthFor(vc_cycle, exchange, kinds) :
                      kinds \in [1..Len(vc_cycle) -> DepthKinds]}
    /\ vpc = "start"
    /\ NoLocals
    /\ ret = None
    /\ leg_log = <<>>
    /\ run = 1
    /\ first_ret = None
    /\ completion = <<>>
    /\ first_completion = <<>>

CycleIdle ==
    /\ vc_cycle = <<>>
    /\ exchange = ExchangeState({}, {}, {}, {})
    /\ depth = <<>>
    /\ vpc = "idle"
    /\ NoLocals
    /\ ret = None
    /\ leg_log = <<>>
    /\ run = 1
    /\ first_ret = None
    /\ completion = <<>>
    /\ first_completion = <<>>

(***************************************************************************)
(* best_symbols_thread                                                     *)
(***************************************************************************)
\* MAX_SYMBOLS_WATCH and UPDATE_SYMBOLS_SECONDS are imported from constants
\* (arbitrage.rs line 1); the values used here are small stand-ins.
MAX_SYMBOLS_WATCH == 2
UPDATE_SYMBOLS_SECONDS == 2

\* MIN_ARB_THRESH = 1.015
MIN_ARB_THRESH == Rat(203, 200)

ignore_list == {"BTC", "USDT"}

InsertLeg_Unbounded(hs, asset) ==
    IF asset \notin ignore_list THEN hs \cup {asset} ELSE hs

\* if symbols_hs.len() < MAX_SYMBOLS_WATCH && !ignore_list.contains(asset)
\*     { symbols_hs.insert(asset); }
InsertLeg(hs, asset) ==
    IF Cardinality(hs) < MAX_SYMBOLS_WATCH /\ asset \notin ignore_list
    THEN hs \cup {asset}
    ELSE hs

\* for leg in cycle { insert leg.from; insert leg.to }
RECURSIVE AccumulateLegs(_, _)
AccumulateLegs(c, hs) ==
    IF c = <<>> THEN hs
    ELSE AccumulateLegs(Tail(c), InsertLeg(InsertLeg(hs, c[1].from), c[1].to))

RECURSIVE ExpandSymbols_UsdtOnly(_)
ExpandSymbols_UsdtOnly(sym_list) ==
    IF sym_list = <<>> THEN <<>>
    ELSE <<sym_list[1] \o "USDT">> \o ExpandSymbols_UsdtOnly(Tail(sym_list))

\* Lines 313-320: every accumulated asset, in the set's iteration order,
\* expanded into its USDT and its BTC symbol.
RECURSIVE ExpandSymbols(_)
ExpandSymbols(sym_list) ==
    IF sym_list = <<>> THEN <<>>
    ELSE <<sym_list[1] \o "USDT", sym_list[1] \o "BTC">>
         \o ExpandSymbols(Tail(sym_list))

\* timestamp >= save_timestamp && symbols_hs.len() == MAX_SYMBOLS_WATCH
SwapDue_IgnoresSize(ts, save_ts, hs) == ts >= save_ts

SwapDue(ts, save_ts, hs) ==
    ts >= save_ts /\ Cardinality(hs) = MAX_SYMBOLS_WATCH

\* What validate_arbitrage_cycle can return to the loop for a cycle, given
\* the prices of the snapshot: the guards decide None and the panic; past
\* them the order books decide, and every outcome is possible.
ThreadRates == {One, MIN_ARB_THRESH, Rat(21, 20)}

ValidationOutcomes(c, prices) ==
    LET gate == AnchorGate(c, prices)
    IN  IF gate.kind = "none" THEN {[kind |-> "value", opt |-> None]}
        ELSE IF gate.kind = "panic" THEN {[kind |-> "panic", opt |-> None]}
        ELSE {[kind |-> "value", opt |-> None]}
             \cup {[kind |-> "value", opt |-> Some(r)] : r \in ThreadRates}

\* ---- the inputs of the loop
MaxTime == 5
MaxClockStep == 2
MaxCycles == 2
NumReaders == 1
Readers == 1..NumReaders
ReaderName(r) == "reader" \o ToString(r)

\* What run_bellman_ford_multi can hand over: cycles anchored in USDT, BNB
\* and BTC, and one whose start has no budget rule.
ThreadCycles ==
    {<<Edge("USDT", "BNB"), Edge("BNB", "AVAX"), Edge("AVAX", "USDT")>>,
     <<Edge("BNB", "LTC"), Edge("LTC", "BTC"), Edge("BTC", "BNB")>>,
     <<Edge("BTC", "AVAX"), Edge("AVAX", "BTC")>>,
     <<Edge("AVAX", "USDT"), Edge("USDT", "AVAX")>>}

\* The last prices of a snapshot, as far as the starting budget reads them.
ThreadPrices ==
    {[s \in {"BTCUSDT", "BNBUSDT"} |-> BasePrice(s)],
     [s \in {"BNBUSDT"} |-> BasePrice(s)]}

\* No snapshot taken yet.
NoPrices == [s \in {} |-> One]

\* The watch-list the thread is started with.
InitialWatchList == <<"ETHUSDT", "ETHBTC">>

ThreadInit ==
    /\ best_symbols = InitialWatchList
    /\ lock = "free"
    /\ pc = "sleep"
    /\ symbols_hs = {}
    /\ timestamp = 0
    /\ save_timestamp = 0 + UPDATE_SYMBOLS_SECONDS
    /\ exch_binance = NoPrices
    /\ cycles = <<>>
    /\ cur_cycle = <<>>
    /\ arb_opt = None
    /\ new_best_symbols = <<>>
    /\ rpc = [r \in Readers |-> "idle"]
    /\ observed = [r \in Readers |-> <<>>]
    /\ committed = InitialWatchList
    /\ last_swap = 0
    /\ overdue = FALSE

ThreadIdle ==
    /\ best_symbols = <<>>
    /\ lock = "free"
    /\ pc = "idle"
    /\ symbols_hs = {}
    /\ timestamp = 0
    /\ save_timestamp = 0
    /\ exch_binance = NoPrices
    /\ cycles = <<>>
    /\ cur_cycle = <<>>
    /\ arb_opt = None
    /\ new_best_symbols = <<>>
    /\ rpc = [r \in Readers |-> "idle"]
    /\ observed = [r \in Readers |-> <<>>]
    /\ committed = <<>>
    /\ last_swap = 0
    /\ overdue = FALSE

\* Lines 288-289: sleep 100 ms, then sample the clock in whole seconds.
\* SystemTime is the wall clock: a sample may lie before the previous one
\* when the clock is set back.
Sleep ==
    /\ pc = "sleep"
    /\ \E step \in (0 - MaxClockStep)..MaxClockStep :
          /\ timestamp + step >= 0
          /\ timestamp + step <= MaxTime
          /\ timestamp' = timestamp + step
    /\ pc' = "snapshot"
    /\ UNCHANGED <<best_symbols, lock, symbols_hs, save_timestamp, exch_binance,
                   cycles, cur_cycle, arb_opt, new_best_symbols, reader_vars,
                   committed>>
    /\ UNCHANGED <<sim_vars, store_vars, cycle_vars, swap_history>>

\* Line 291: Binance::new().await, a fresh exchange snapshot.
Snapshot ==
    /\ pc = "snapshot"
    /\ exch_binance' \in ThreadPrices
    /\ pc' = "search"
    /\ UNCHANGED <<best_symbols, lock, symbols_hs, timestamp, save_timestamp,
                   cycles, cur_cycle, arb_opt, new_best_symbols, reader_vars,
                   committed>>
    /\ UNCHANGED <<sim_vars, store_vars, cycle_vars, swap_history>>

\* Line 292: run_bellman_ford_multi, the candidate cycles of this tick.
Search ==
    /\ pc = "search"
    /\ cycles' \in UNION {[1..n -> ThreadCycles] : n \in 0..MaxCycles}
    /\ pc' = "cycles"
    /\ UNCHANGED <<best_symbols, lock, symbols_hs, timestamp, save_timestamp,
                   exch_binance, cur_cycle, arb_opt, new_best_symbols,
                   reader_vars, committed>>
    /\ UNCHANGED <<sim_vars, store_vars, cycle_vars, swap_history>>

\* Lines 293-294: the next cycle of the for loop is validated; a missing
\* reference price makes validate_arbitrage_cycle panic, which ends the thread.
ValidateCycle ==
    /\ pc = "cycles"
    /\ cycles # <<>>
    /\ cur_cycle' = Head(cycles)
    /\ cycles' = Tail(cycles)
    /\ \E outcome \in ValidationOutcomes(Head(cycles), exch_binance) :
          IF outcome.kind = "panic"
          THEN pc' = "panicked" /\ arb_opt' = None
          ELSE pc' = "accumulate" /\ arb_opt' = outcome.opt
    /\ UNCHANGED <<best_symbols, lock, symbols_hs, timestamp, save_timestamp,
                   exch_binance, new_best_symbols, reader_vars, committed>>
    /\ UNCHANGED <<sim_vars, store_vars, cycle_vars, swap_history>>

\* Lines 295-307: the assets of a cycle whose rate reaches the threshold are
\* accumulated; the iteration's cycle and arb_opt go out of scope.
Accumulate ==
    /\ pc = "accumulate"
    /\ symbols_hs' =
           IF arb_opt.some /\ RGe(arb_opt.val, MIN_ARB_THRESH)
           THEN AccumulateLegs(cur_cycle, symbols_hs)
           ELSE symbols_hs
    /\ cur_cycle' = <<>>
    /\ arb_opt' = None
    /\ pc' = "cycles"
    /\ UNCHANGED <<best_symbols, lock, timestamp, save_timestamp, exch_binance,
                   cycles, new_best_symbols, reader_vars, committed>>
    /\ UNCHANGED <<sim_vars, store_vars, cycle_vars, swap_history>>

\* Lines 310-320: the for loop is over; the slow-tick check, and when it
\* passes the new list is built from the set in its iteration order.  The
\* snapshot of the tick is not used past this point.
SlowTickCheck ==
    /\ pc = "cycles"
    /\ cycles = <<>>
    /\ IF SwapDue(timestamp, save_timestamp, symbols_hs)
       THEN /\ \E seed \in HashSeeds :
                  new_best_symbols' = ExpandSymbols(HashSetIter(symbols_hs, seed))
            /\ pc' = "lock"
       ELSE /\ pc' = "sleep"
            /\ UNCHANGED new_best_symbols
    /\ overdue' = (overdue \/ (timestamp >= save_timestamp
                                 /\ Cardinality(symbols_hs) < MAX_SYMBOLS_WATCH))
    /\ exch_binance' = NoPrices
    /\ UNCHANGED <<best_symbols, lock, symbols_hs, timestamp, save_timestamp,
                   cycles, cur_cycle, arb_opt, reader_vars, committed, last_swap>>
    /\ UNCHANGED <<sim_vars, store_vars, cycle_vars>>

\* Line 323: best_symbols.lock(), which waits while a reader holds the mutex.
SwapLock ==
    /\ pc = "lock"
    /\ lock = "free"
    /\ lock' = "selector"
    /\ pc' = "clear"
    /\ UNCHANGED <<best_symbols, symbols_hs, timestamp, save_timestamp,
                   exch_binance, cycles, cur_cycle, arb_opt, new_best_symbols,
                   reader_vars, committed>>
    /\ UNCHANGED <<sim_vars, store_vars, cycle_vars, swap_history>>

LockAfterClear_Released == "free"

\* The guard taken at line 323 lives to the end of the block (line 332): the
\* mutex stays with the selector after clear().
LockAfterClear == "selector"

\* Line 324: shared_symbols.clear()
SwapClear ==
    /\ pc = "clear"
    /\ best_symbols' = <<>>
    /\ lock' = LockAfterClear
    /\ pc' = "extend"
    /\ UNCHANGED <<symbols_hs, timestamp, save_timestamp, exch_binance, cycles,
                   cur_cycle, arb_opt, new_best_symbols, reader_vars, committed>>
    /\ UNCHANGED <<sim_vars, store_vars, cycle_vars, swap_history>>

\* Line 325: shared_symbols.extend(new_best_symbols), one push at a time; the
\* list is complete with the push of the last element.
SwapExtend ==
    /\ pc = "extend"
    /\ new_best_symbols # <<>>
    /\ best_symbols' = Append(best_symbols, Head(new_best_symbols))
    /\ new_best_symbols' = Tail(new_best_symbols)
    /\ committed' = IF Tail(new_best_symbols) = <<>> THEN best_symbols'
                    ELSE committed
    /\ UNCHANGED <<lock, pc, symbols_hs, timestamp, save_timestamp, exch_binance,
                   cycles, cur_cycle, arb_opt, reader_vars>>
    /\ UNCHANGED <<sim_vars, store_vars, cycle_vars, swap_history>>

\* Lines 327-332: the set is cleared, the deadline advanced, and the guard
\* dropped at the end of the block.
NextDeadline_Now(ts) == ts

\* save_timestamp = timestamp + UPDATE_SYMBOLS_SECONDS
NextDeadline(ts) == ts + UPDATE_SYMBOLS_SECONDS

SwapFinish ==
    /\ pc = "extend"
    /\ new_best_symbols = <<>>
    /\ symbols_hs' = {}
    /\ save_timestamp' = NextDeadline(timestamp)
    /\ lock' = "free"
    /\ pc' = "sleep"
    /\ last_swap' = timestamp
    /\ overdue' = FALSE
    /\ UNCHANGED <<best_symbols, timestamp, exch_binance, cycles, cur_cycle,
                   arb_opt, new_best_symbols, reader_vars, committed>>
    /\ UNCHANGED <<sim_vars, store_vars, cycle_vars>>

\* ---- a reader of the watch-list: lock, copy, unlock
ReaderLock(r) ==
    /\ rpc[r] = "idle"
    /\ lock = "free"
    /\ lock' = ReaderName(r)
    /\ rpc' = [rpc EXCEPT ![r] = "locked"]
    /\ UNCHANGED <<best_symbols, pc, symbols_hs, timestamp, save_timestamp,
                   exch_binance, cycles, cur_cycle, arb_opt, new_best_symbols,
                   observed, committed>>
    /\ UNCHANGED <<sim_vars, store_vars, cycle_vars, swap_history>>

ReaderCopy(r) ==
    /\ rpc[r] = "locked"
    /\ observed' = [observed EXCEPT ![r] = best_symbols]
    /\ rpc' = [rpc EXCEPT ![r] = "copied"]
    /\ UNCHANGED <<best_symbols, lock, pc, symbols_hs, timestamp, save_timestamp,
                   exch_binance, cycles, cur_cycle, arb_opt, new_best_symbols,
                   committed>>
    /\ UNCHANGED <<sim_vars, store_vars, cycle_vars, swap_history>>

ReaderUnlock(r) ==
    /\ rpc[r] = "copied"
    /\ lock' = IF lock = ReaderName(r) THEN "free" ELSE lock
    /\ rpc' = [rpc EXCEPT ![r] = "idle"]
    /\ observed' = [observed EXCEPT ![r] = <<>>]
    /\ UNCHANGED <<best_symbols, pc, symbols_hs, timestamp, save_timestamp,
                   exch_binance, cycles, cur_cycle, arb_opt, new_best_symbols,
                   committed>>
    /\ UNCHANGED <<sim_vars, store_vars, cycle_vars, swap_history>>

(***************************************************************************)
(* Specifications                                                          *)
(***************************************************************************)
InitSim == SimInit /\ StoreIdle /\ CycleIdle /\ ThreadIdle
NextSim == SimCall
SpecSim == InitSim /\ [][NextSim]_vars

InitStore == StoreInit /\ SimIdle /\ CycleIdle /\ ThreadIdle
NextStore == StoreArbCycle
SpecStore == InitStore /\ [][NextStore]_vars

InitCycle == CycleInit /\ SimIdle /\ StoreIdle /\ ThreadIdle
NextCycle ==
    \/ Begin
    \/ ExtractLegs
    \/ IssueFetches
    \/ \E k \in 1..Len(vc_cycle) : FetchComplete(k)
    \/ ScanResults
    \/ PropagateLeg
    \/ ReturnSome
    \/ Reevaluate
SpecCycle == InitCycle /\ [][NextCycle]_vars

Init == ThreadInit /\ SimIdle /\ StoreIdle /\ CycleIdle
Next ==
    \/ Sleep
    \/ Snapshot
    \/ Search
    \/ ValidateCycle
    \/ Accumulate
    \/ SlowTickCheck
    \/ SwapLock
    \/ SwapClear
    \/ SwapExtend
    \/ SwapFinish
    \/ \E r \in Readers : ReaderLock(r) \/ ReaderCopy(r) \/ ReaderUnlock(r)
Spec == Init /\ [][Next]_vars

(***************************************************************************)
(* Claims about the simulator (checked under SpecSim)                      *)
(***************************************************************************)
RECURSIVE SumCost(_, _, _)
SumCost(orderbook, direction, i) ==
    IF i > Len(orderbook) THEN Zero
    ELSE RAdd(Cost(direction, orderbook[i][1], orderbook[i][2]),
              SumCost(orderbook, direction, i + 1))

RECURSIVE SumEffective(_, _, _)
SumEffective(orderbook, direction, i) ==
    IF i > Len(orderbook) THEN Zero
    ELSE RAdd(EffectiveQuantity(direction, orderbook[i][1], orderbook[i][2]),
              SumEffective(orderbook, direction, i + 1))

\* The book's total consumable depth: the sum of the per-level costs.
Depth(orderbook, direction) == SumCost(orderbook, direction, 1)

\* C5: for either direction, a positive budget and a best-first book whose
\* total consumable depth is positive and >= the budget, the simulator
\* returns Some with total_cost equal to the budget and total_quantity > 0.
C5_SufficientDepth ==
    (/\ sim_pc = "returned"
     /\ RGt(Depth(sim_book, sim_dir), Zero)
     /\ RGe(Depth(sim_book, sim_dir), sim_budget))
    => /\ sim_out.some
       /\ sim_out.val.total_cost = sim_budget
       /\ RGt(sim_out.val.total_quantity, Zero)

\* A two-level book whose first level is consumed in full and whose second
\* level is filled in part, the budget lying strictly inside the depth.
C5_Witness ==
    /\ sim_pc = "returned"
    /\ Len(sim_book) = 2
    /\ RLt(Cost(sim_dir, sim_book[1][1], sim_book[1][2]), sim_budget)
    /\ RLt(sim_budget, Depth(sim_book, sim_dir))
    /\ sim_out.some
    /\ sim_out.val.total_cost = sim_budget

\* C6 as amended: for either direction and every NON-EMPTY book whose total
\* consumable depth is < the budget, the simulator returns Some, every level
\* is consumed in full (total_quantity is the sum of the levels' effective
\* quantities) and total_cost is the book's full depth, not the budget.
C6_InsufficientDepth ==
    (/\ sim_pc = "returned"
     /\ Len(sim_book) > 0
     /\ RLt(Depth(sim_book, sim_dir), sim_budget))
    => /\ sim_out.some
       /\ sim_out.val.total_cost = Depth(sim_book, sim_dir)
       /\ sim_out.val.total_cost # sim_budget
       /\ sim_out.val.total_quantity = SumEffective(sim_book, sim_dir, 1)

C6_Witness ==
    /\ sim_pc = "returned"
    /\ Len(sim_book) = 2
    /\ RLt(Depth(sim_book, sim_dir), sim_budget)
    /\ sim_out.some
    /\ sim_out.val.total_cost = Depth(sim_book, sim_dir)

\* C6 as stated: EVERY book whose depth is < the budget yields Some with
\* total_cost equal to the full depth.  The empty book (depth 0) yields None.
C6_Original ==
    (/\ sim_pc = "returned"
     /\ RLt(Depth(sim_book, sim_dir), sim_budget))
    => /\ sim_out.some
       /\ sim_out.val.total_cost = Depth(sim_book, sim_dir)
       /\ sim_out.val.total_quantity = SumEffective(sim_book, sim_dir, 1)

\* The input of the single-level example: [(100, 10)], budget 500, Forward.
C7_Example ==
    /\ sim_book = <<Level(100, 10)>>
    /\ sim_budget = Num(500)
    /\ sim_dir = "Forward"

\* C7 as amended: on [(100, 10)], budget 500, Forward, the level's cost is
\* its 10 base units, which does not exceed the budget, so the level is
\* consumed in full: total_cost = 10, total_quantity = 1000 and
\* weighted_average_price = total_quantity / total_cost = 100.
C7_SingleLevelForward ==
    (sim_pc = "returned" /\ C7_Example)
    => sim_out = Some([weighted_average_price |-> Num(100),
                       total_cost |-> Num(10),
                       total_quantity |-> Num(1000)])

C7_Witness ==
    /\ sim_pc = "returned"
    /\ C7_Example
    /\ sim_out.some

\* C7 as stated: a partial fill pairing 5 base units with 500 quote units
\* and a weighted_average_price of 0.01.
C7_Original ==
    (sim_pc = "returned" /\ C7_Example)
    => /\ sim_out.some
       /\ sim_out.val.weighted_average_price = Rat(1, 100)
       /\ {sim_out.val.total_cost, sim_out.val.total_quantity} = {Num(5), Num(500)}


(***************************************************************************)
(* Claims about the evaluation of a cycle (checked under SpecCycle)        *)
(***************************************************************************)
\* C3: in calculate_arbitrage the iterations take the legs in cycle order
\* (iteration j works on leg j's book), the budget given to the simulator
\* for leg 1 is the starting budget, and the budget given for leg j+1 is the
\* total_quantity the simulator returned for leg j.
C3_BudgetPropagation ==
    \A j \in 1..Len(leg_log) :
        /\ leg_log[j].leg = j
        /\ leg_log[j].book = depth[j].book
        /\ leg_log[j].sim_budget =
               IF j = 1 THEN vc_budget.val
               ELSE leg_log[j - 1].sim_out.val.total_quantity

\* A three-leg cycle propagated to the end, the budgets of the legs differing.
C3_Witness ==
    /\ vpc = "returned"
    /\ ret.some
    /\ Len(leg_log) = 3
    /\ leg_log[2].sim_budget # leg_log[1].sim_budget
    /\ leg_log[3].sim_budget # leg_log[2].sim_budget
    /\ leg_log[2].sim_budget # leg_log[1].sim_out.val.total_cost

\* Every leg of the cycle was fetched, found, accepted and simulated.
AllLegsSucceeded ==
    /\ vc_budget.some
    /\ \A k \in 1..Len(vc_cycle) : depth[k].ok
    /\ Len(leg_log) = Len(vc_cycle)
    /\ \A j \in 1..Len(leg_log) :
           /\ leg_log[j].found
           /\ leg_log[j].accepted
           /\ leg_log[j].simulated
           /\ leg_log[j].sim_out.some

C8_Deterministic ==
    (run > 1 /\ vpc = "returned") => ret = first_ret

\* Both evaluations returned Some for a three-leg cycle whose legs have
\* different books, the fetches having completed in different orders.
C8_Witness ==
    /\ run = 2
    /\ vpc = "returned"
    /\ ret.some
    /\ Len(vc_cycle) = 3
    /\ completion # first_completion
    /\ depth[1].book # depth[2].book
    /\ depth[2].book # depth[3].book

\* The results have been inspected: the scan of lines 195-203 has run.
Inspected ==
    \/ orderbooks # <<>>
    \/ vpc = "propagate"
    \/ (vpc = "returned" /\ results # <<>>)

\* calculate_arbitrage has been entered in this call.
PropagatorInvoked == ca_i > 0 \/ leg_log # <<>>

\* C11: within one call, no result is inspected before all n fetches have
\* been issued and have completed; calculate_arbitrage is entered at most
\* once, from the join, with every fetch completed and none failed; and when
\* a fetch failed calculate_arbitrage is never entered and the call returns
\* None.
C11_FanOutFanIn ==
    /\ [](Inspected =>
             /\ in_flight = {}
             /\ Len(results) = Len(vc_cycle)
             /\ Len(completion) = Len(vc_cycle)
             /\ \A k \in DOMAIN results : results[k] = Some(depth[k]))
    /\ []((\E k \in DOMAIN results : results[k].some /\ ~results[k].val.ok) =>
             /\ ~PropagatorInvoked
             /\ vpc = "returned" => ret = None)
    /\ [][(ca_i' > 0 /\ ca_i = 0) =>
             /\ vpc = "join"
             /\ ~PropagatorInvoked
             /\ in_flight = {}
             /\ Len(completion) = Len(vc_cycle)
             /\ \A k \in DOMAIN results : results[k].some /\ results[k].val.ok]_vars

\* The last fetch issued completed first, the first failed, and the call
\* returned None without entering calculate_arbitrage.
C11_Witness ==
    /\ vpc = "returned"
    /\ Len(vc_cycle) = 3
    /\ completion = <<3, 2, 1>>
    /\ ~depth[1].ok
    /\ depth[2].ok
    /\ depth[3].ok
    /\ ret = None
    /\ ~PropagatorInvoked

\* The base asset of the symbol chosen for a leg: the first asset of the
\* concatenation that formed it (to+from when that is listed, else from+to).
BaseAsset(leg) ==
    IF (leg.to \o leg.from) \in DOMAIN exchange.symbols THEN leg.to ELSE leg.from

\* C16 as stated: for every leg, Forward goes with Asks and Reverse with
\* Bids, and Forward/Asks is chosen exactly when the base asset of the leg's
\* symbol is the leg's from asset.
C16_DirectionDerivation ==
    \A k \in DOMAIN symbols :
        /\ directions[k] = "Forward" <=> book_types[k] = "Asks"
        /\ directions[k] = "Reverse" <=> book_types[k] = "Bids"
        /\ directions[k] = "Forward" <=> BaseAsset(vc_cycle[k]) = vc_cycle[k].from

\* C17 as stated: a returned Some carries, for every leg, the budget that
\* was passed to the simulator for that leg.
C17_CommittedQuantities ==
    (vpc = "returned" /\ ret.some) =>
        \A i \in DOMAIN ret.val.quantities :
            ret.val.quantities[i] = leg_log[i].sim_budget

\* C18 as stated: for a returned Some, real_rate times the starting budget
\* is the total_quantity of the last leg's simulation.
C18_RateMatchesAmounts ==
    (vpc = "returned" /\ ret.some) =>
        RMul(ret.val.real_rate, vc_budget.val) =
            leg_log[Len(leg_log)].sim_out.val.total_quantity

\* The budget the spec gives an allow-listed starting asset.
ExpectedBudget(from) ==
    IF from \in {"USDT", "BUSD", "USDC"} THEN Num(USD_BUDGET)
    ELSE RDiv(Num(USD_BUDGET), exchange.prices[from \o "USDT"])

\* C9 as stated: the call returns None before any fetch for an empty cycle
\* and for a start outside ASSET_HOLDINGS; for every non-empty cycle whose
\* start is in ASSET_HOLDINGS (and whose USDT reference price is known) the
\* starting budget is resolved and the evaluation goes on to the fetches.
C9_AnchorGate ==
    vpc \notin {"idle", "start"} =>
        IF vc_cycle = <<>> \/ vc_cycle[1].from \notin ASSET_HOLDINGS
        THEN /\ vpc = "returned"
             /\ ret = None
             /\ results = <<>>
             /\ in_flight = {}
        ELSE LET from == vc_cycle[1].from
             IN  (from \in {"USDT", "BUSD", "USDC"}
                      \/ (from \o "USDT") \in DOMAIN exchange.prices)
                 => /\ vc_budget = Some(ExpectedBudget(from))
                    /\ vpc = "returned" => Len(results) = Len(vc_cycle)


(***************************************************************************)
(* Claims about the recorder (checked under SpecStore)                     *)
(***************************************************************************)
SlotOf(data, i) ==
    CASE i = 0 -> data.asset_0 [] i = 1 -> data.asset_1
      [] i = 2 -> data.asset_2 [] i = 3 -> data.asset_3
      [] i = 4 -> data.asset_4 [] i = 5 -> data.asset_5
      [] i = 6 -> data.asset_6 [] i = 7 -> data.asset_7

MinOf(a, b) == IF a < b THEN a ELSE b

\* C10: for a cycle touching k distinct assets the record fills exactly the
\* slots asset_0 .. asset_{min(k,8)-1}, each with an asset of the cycle, no
\* asset twice, and arb_length is the number of edges; with k = 9 eight are
\* kept and no error arises from the ninth.
C10_AssetOverflow ==
    store_pc = "returned" =>
        LET data == store_data.val
            k == Cardinality(CycleAssets(store_cycle))
            filled == {i \in 0..7 : SlotOf(data, i).some}
        IN  /\ store_data.some
            /\ filled = 0..(MinOf(k, 8) - 1)
            /\ \A i \in filled : SlotOf(data, i).val \in CycleAssets(store_cycle)
            /\ \A i, j \in filled :
                   SlotOf(data, i).val = SlotOf(data, j).val => i = j
            /\ data.arb_length = Len(store_cycle)

\* A cycle of nine distinct assets recorded successfully: eight slots filled.
C10_Witness ==
    /\ store_pc = "returned"
    /\ Cardinality(CycleAssets(store_cycle)) = 9
    /\ store_result = "Ok"
    /\ Len(store_csv) = 1
    /\ \A i \in 0..7 : SlotOf(store_data.val, i).some

(***************************************************************************)
(* Claims about the selector thread (checked under Spec)                   *)
(***************************************************************************)
\* C1: the contents of the shared watch-list change only in the steps of the
\* swap, which is entered at a slow-tick check that found the sampled
\* timestamp >= save_timestamp and exactly MAX_SYMBOLS_WATCH assets in the
\* accumulation set; no other step of the loop changes the list.
C1_SwapGate ==
    [][best_symbols' # best_symbols =>
          /\ pc \in {"clear", "extend"}
          /\ timestamp >= save_timestamp
          /\ Cardinality(symbols_hs) = MAX_SYMBOLS_WATCH]_vars

\* A swap has been carried out: the list is a new one and the loop is back
\* at its sleep.
C1_Witness ==
    /\ pc = "sleep"
    /\ best_symbols # InitialWatchList
    /\ Len(best_symbols) = 2 * MAX_SYMBOLS_WATCH
    /\ symbols_hs = {}

\* C2: a reader that holds the mutex and copies the list never gets an
\* intermediate one (the cleared list, or a list extended in part): its copy
\* is the last list that was written completely.
C2_SwapAtomic ==
    \A r \in Readers : rpc[r] = "copied" => observed[r] = committed

\* A reader has copied a list that a swap put in place.
C2_Witness ==
    \E r \in Readers :
        /\ rpc[r] = "copied"
        /\ observed[r] # InitialWatchList
        /\ Len(observed[r]) = 2 * MAX_SYMBOLS_WATCH

\* The assets a qualifying cycle offers to the accumulation set in this step.
Offered ==
    IF pc = "accumulate" /\ arb_opt.some /\ RGe(arb_opt.val, MIN_ARB_THRESH)
    THEN CycleAssets(cur_cycle)
    ELSE {}

\* C12: the accumulation set never holds more than MAX_SYMBOLS_WATCH assets
\* and never BTC or USDT; an asset enters it only in the accumulation step of
\* a cycle whose validated rate is >= MIN_ARB_THRESH and of which it is the
\* from or to asset of a leg; and the set is emptied by every swap, so what
\* it holds was put there since the last one.
C12_AccumulationSet ==
    /\ [](/\ Cardinality(symbols_hs) <= MAX_SYMBOLS_WATCH
          /\ symbols_hs \cap ignore_list = {})
    /\ [][/\ (symbols_hs' \ symbols_hs) \subseteq Offered
          /\ (pc = "extend" /\ pc' = "sleep") => symbols_hs' = {}]_vars

\* The set is full and a qualifying cycle offers an asset it does not hold.
C12_Witness ==
    /\ pc = "accumulate"
    /\ Cardinality(symbols_hs) = MAX_SYMBOLS_WATCH
    /\ (Offered \ ignore_list) \ symbols_hs # {}

\* The entries of a list.
Entries(list) == {list[i] : i \in DOMAIN list}

\* The USDT and BTC symbols of a set of assets.
Expansion(assets) == {a \o "USDT" : a \in assets} \cup {a \o "BTC" : a \in assets}

\* The step that ends a swap (lines 327-332).
SwapEnds == pc = "extend" /\ pc' = "sleep"

\* C13 (amended): right after a swap the watch-list holds exactly the USDT
\* and BTC symbols of the assets the set held before the swap, in
\* 2 * MAX_SYMBOLS_WATCH entries; the set is empty and save_timestamp is the
\* tick's timestamp + UPDATE_SYMBOLS_SECONDS.  An entry of the previous list
\* is in the new one exactly when it is one of these symbols.
C13_SwapPostState ==
    [][SwapEnds =>
          /\ Entries(best_symbols') = Expansion(symbols_hs)
          /\ Len(best_symbols') = 2 * MAX_SYMBOLS_WATCH
          /\ symbols_hs' = {}
          /\ save_timestamp' = timestamp + UPDATE_SYMBOLS_SECONDS]_vars

\* A swap has just ended: new list, empty set, deadline advanced, mutex free.
C13_Witness ==
    /\ pc = "sleep"
    /\ lock = "free"
    /\ last_swap = timestamp
    /\ last_swap > 0
    /\ Entries(best_symbols) = Expansion({"BNB", "AVAX"})
    /\ symbols_hs = {}
    /\ save_timestamp = timestamp + UPDATE_SYMBOLS_SECONDS

\* C13 as stated: the above, and no entry of the previous list is in the new
\* one (at clear() the list still is the previous one and new_best_symbols
\* the whole new one).
C13_Original ==
    /\ C13_SwapPostState
    /\ [][(pc = "clear" /\ pc' = "extend") =>
              Entries(best_symbols) \cap Entries(new_best_symbols) = {}]_vars

\* The slow-tick check of line 311 is the next statement of the loop.
AtCheck == pc = "cycles" /\ cycles = <<>>

\* The step that takes the check.
CheckTaken == AtCheck /\ pc' # pc

\* C14 (amended): a check that finds the deadline passed and the set short
\* of capacity leaves the watch-list, the set and save_timestamp as they are
\* and goes back to the sleep; nothing but a swap takes an asset out of the
\* set or moves save_timestamp; and a check that finds the set at capacity
\* and the sampled timestamp >= save_timestamp starts the swap.
C14_CompletenessGate ==
    /\ [][(AtCheck /\ timestamp >= save_timestamp
                   /\ Cardinality(symbols_hs) < MAX_SYMBOLS_WATCH) =>
              /\ UNCHANGED <<best_symbols, symbols_hs, save_timestamp>>
              /\ pc' \in {"cycles", "sleep"}]_vars
    /\ [][~SwapEnds =>
              /\ symbols_hs \subseteq symbols_hs'
              /\ save_timestamp' = save_timestamp]_vars
    /\ [][(CheckTaken /\ timestamp >= save_timestamp
                      /\ Cardinality(symbols_hs) = MAX_SYMBOLS_WATCH) =>
              pc' = "lock"]_vars

\* A check found the deadline passed and the set short; the set was kept and
\* filled later, and a later check has started the swap.
C14_Witness ==
    /\ overdue
    /\ pc = "lock"
    /\ Cardinality(symbols_hs) = MAX_SYMBOLS_WATCH
    /\ timestamp >= save_timestamp

\* C14 as stated: after a check that found the deadline passed and the set
\* short, the first check that finds the set at capacity starts the swap.
C14_Original ==
    /\ C14_CompletenessGate
    /\ [][(CheckTaken /\ overdue
                      /\ Cardinality(symbols_hs) = MAX_SYMBOLS_WATCH) =>
              pc' = "lock"]_vars

\* C15 as stated: a candidate whose validation returned None or a rate below
\* MIN_ARB_THRESH leaves the set, the watch-list and save_timestamp as they
\* are, the loop goes on with the remaining candidates of the tick, and the
\* loop never ends.
C15_FailuresLocal ==
    /\ [][(pc = "accumulate"
              /\ (~arb_opt.some \/ RLt(arb_opt.val, MIN_ARB_THRESH))) =>
              /\ UNCHANGED <<symbols_hs, best_symbols, save_timestamp, cycles>>
              /\ pc' \in {"accumulate", "cycles"}]_vars
    /\ [](pc # "panicked")

\* C19: a swap is started only by a check whose sampled timestamp is at least
\* UPDATE_SYMBOLS_SECONDS past the sampled timestamp of the previous swap, or
\* past the timestamp sampled at the start of the thread when it is the first
\* (whether or not the clock was set back in between).
C19_SwapSpacing ==
    [][(CheckTaken /\ pc' = "lock") =>
          timestamp >= last_swap + UPDATE_SYMBOLS_SECONDS]_vars

\* A second swap has been started, exactly UPDATE_SYMBOLS_SECONDS after the
\* first, the set having refilled in between.
C19_Witness ==
    /\ pc = "lock"
    /\ last_swap >= UPDATE_SYMBOLS_SECONDS
    /\ timestamp = last_swap + UPDATE_SYMBOLS_SECONDS
    /\ Entries(best_symbols) # Entries(InitialWatchList)

====
